---- MODULE Spec2Model ----
(***************************************************************************)
(* Inventory ledger of RMMP (src/app/services/services.py) over the tables *)
(* of src/app/models/models.py, stored in PostgreSQL (src/app/core/        *)
(* config.py builds a postgresql+psycopg2 URI): READ COMMITTED statements, *)
(* primary keys and foreign keys enforced at flush/commit.                 *)
(*                                                                         *)
(* Every service function runs on a SQLModel Session.  A session is a      *)
(* process here: pc is its position in the function it is running, loc its *)
(* local variables, pending the Log rows it has added to its open          *)
(* transaction and not committed yet.  One step is one SQL statement (or   *)
(* one commit).                                                            *)
(***************************************************************************)
EXTENDS Integers, Sequences, FiniteSets, TLC

\* ------------------------------------------------------------ bounds
MaxItems == 1      \* item_info rows in the store
MaxNum == 1        \* largest batch passed to add_item
MaxLogs == 1       \* Log rows, committed or pending, of the ledger runs
MaxLifecycleLogs == 3    \* the same, of the lifecycle runs
MaxRepeatLogs == 4       \* the same, of the runs of repeated returns
MaxConcLogs == 4         \* the same, of the concurrent runs
MaxConcItems == 3        \* rows of item_info of the concurrent runs
MaxListItems == 1        \* rows of item_info of the runs that add Lists
MaxBatch == 3            \* largest small batch of the runs that fill a List
MaxSmallItems == 4       \* rows of item_info added in small batches there

\* ------------------------------------------------------------ ItemStatus
AVAILABLE == 1
LENT == 0
REPAIRING == 2
SCRAPPED == 3
APPLYING == 4
UNKNOWN == 5
ItemStatus == {AVAILABLE, LENT, REPAIRING, SCRAPPED, APPLYING, UNKNOWN}

\* id = 1000 * parent + suffix
IdBase == 1000

None == "None"
NoRow == [none |-> TRUE]      \* session.get(...) returning None
Warehouse == "warehouse"      \* wis="仓库"
DefaultDo == "none"           \* do="无"
NullDo == "null"              \* do="null" of return_item

\* ------------------------------------------------------------ members
\* The members table: user_id -> (name, root).  No service function writes it.
members ==
    [u \in {"alice", "bob", "admin"} |->
        CASE u = "alice" -> [name |-> "Alice", root |-> 0]
          [] u = "bob"   -> [name |-> "Bob",   root |-> 0]
          [] u = "admin" -> [name |-> "Admin", root |-> 1]]

UserIds == DOMAIN members \cup {"ghost"}    \* "ghost" is no member

Sessions == {1, 2}

\* ------------------------------------------------------------ results
\* The strings the functions return, by their meaning.
ErrItemNotFound == "Error: item not found"          \* "Error: 无法找到物品 {oid}"
ErrUserNotFound == "Error: user does not exist"     \* "Error: 用户 {user_id} 不存在"
ErrScrapped == "Error: already scrapped"            \* "Error: 它已经报废了"
ErrApplying == "Error: being applied for"           \* "Error: 该物品正在申请中"
ErrNotHolder == "Error: not the holder"             \* "Error: 你不是该物品的持有者"
OkReturned == "returned"                            \* "你归还了物品 ..."
OkHelped == "helped return"                         \* "你帮忙归还了物品 ..."
ErrUnknownCommand == "Error: unknown command"        \* "Error: 未知命令 '{cmd}' ..."
ErrNoUser == "Error: no such user"                  \* "Error: 用户不存在"
ErrPermission == "Error: permission denied"         \* "Error: 权限不足"
ErrParams == "Error: too few parameters"            \* "Error: 参数不足 ..." / "Error: 请提供 ..."
ErrObjType == "Error: wrong object type"            \* "Error: 对象类型错误 ..."
ErrNotNumber == "Error: id must be a number"        \* "Error: ID必须是数字" / "Error: 物品ID必须是数字"
HelpText == "help text"                             \* "机器人命令指南：..."
InfoTodo == "Info: not implemented yet"             \* "Info: ... 功能待实现"
IntegrityError == "IntegrityError"                  \* raised by session.commit()

Msg(m) == [msg |-> m, id |-> 0]        \* a returned string, None, or a raised exception
Id(n) == [msg |-> "id", id |-> n]      \* a returned id

VARIABLES
    category,     \* item_category: id -> [name, total]
    item_list,    \* item_list: id -> [father, name, total, free, broken]
    list_order,   \* the item_list rows in the order an unordered SELECT returns them
    item_info,    \* item_info: id -> [father, useable, wis, do]
    logs,         \* logs: the committed Log rows, in commit order
    pc,           \* session -> position
    loc,          \* session -> local variables of the running call
    pending,      \* session -> Log rows added to the open transaction
    ret,          \* session -> what the last call returned
    pre           \* session -> the store when its last call started

vars == <<category, item_list, list_order, item_info, logs,
          pc, loc, pending, ret, pre>>

store == <<category, item_list, list_order, item_info, logs>>

Store == [category |-> category, item_list |-> item_list,
          item_info |-> item_info, logs |-> logs, pending |-> pending]

\* ------------------------------------------------------------ helpers
Max(S) == CHOOSE x \in S : \A y \in S : y <= x

RECURSIVE Sum(_, _)
Sum(f, S) == IF S = {} THEN 0
             ELSE LET x == CHOOSE y \in S : TRUE IN f[x] + Sum(f, S \ {x})

Last(s) == s[Len(s)]

Extend(f, k, v) == [x \in DOMAIN f \cup {k} |-> IF x = k THEN v ELSE f[x]]

Blank ==
    [op |-> None, name |-> None, category_id |-> 0, name_id |-> 0, num |-> 0,
     num_broken |-> 0, oid |-> 0, user_id |-> None, operation |-> None,
     useable |-> 0, wis |-> None, do |-> None,
     new_id |-> 0, base_suffix |-> 0, item |-> NoRow, total |-> 0, free |-> 0, broken |-> 0,
     list_id |-> 0, list_row |-> NoRow, list_new |-> NoRow, cat_total |-> 0,
     cat_row |-> NoRow, command |-> <<>>, handler |-> None]

\* ------------------------------------------------------------ session plumbing
Goto(p, label, l) ==
    /\ pc' = [pc EXCEPT ![p] = label]
    /\ loc' = [loc EXCEPT ![p] = l]
    /\ UNCHANGED <<ret, pre>>

\* A call starts on an idle session.
Begin(p, label, l) ==
    /\ pc[p] = "idle"
    /\ pc' = [pc EXCEPT ![p] = label]
    /\ loc' = [loc EXCEPT ![p] = l]
    /\ pre' = [pre EXCEPT ![p] = Store]
    /\ ret' = [ret EXCEPT ![p] = Msg(None)]

\* The call returns r (or raises it) to its caller.
Finish(p, r) ==
    /\ pc' = [pc EXCEPT ![p] = "idle"]
    /\ ret' = [ret EXCEPT ![p] = r]
    /\ UNCHANGED <<loc, pre>>

\* A slip in the commit: the new rows take the place of the committed ones.
CommitLogsOverwrite(p) ==
    /\ logs' = pending[p]
    /\ pending' = [pending EXCEPT ![p] = <<>>]

\* session.commit(): the rows of the open transaction become visible.
CommitLogs(p) ==
    /\ logs' = logs \o pending[p]
    /\ pending' = [pending EXCEPT ![p] = <<>>]

\* session.commit() raising IntegrityError: the transaction is rolled back.
Rollback(p) ==
    /\ pending' = [pending EXCEPT ![p] = <<>>]
    /\ UNCHANGED store

LogRows == Len(logs) + Sum([q \in Sessions |-> Len(pending[q])], Sessions)

\* ------------------------------------------------------------ foreign keys
\* A slip in the schema: the column is no foreign key.
NoForeignKey(father, rows) == TRUE

\* father: int = Field(foreign_key=...): the row referred to must be there when
\* the INSERT is flushed.
ForeignKey(father, rows) == father \in DOMAIN rows

\* ------------------------------------------------------------ add_category
CallAddCategory(p, name) ==
    /\ Begin(p, "ac_select", [Blank EXCEPT !.op = "add_category", !.name = name])
    /\ UNCHANGED <<store, pending>>

\* select(ItemCategory).where(name == name).first(); return existing.id
AcSelect(p) ==
    /\ pc[p] = "ac_select"
    /\ LET existing == {c \in DOMAIN category : category[c].name = loc[p].name}
       IN  IF existing # {}
           THEN \E c \in existing : Finish(p, Id(c))
           ELSE Goto(p, "ac_max", loc[p])
    /\ UNCHANGED <<store, pending>>

\* A slip in the id: one below the greatest id.
MaxCategoryIdBelow ==
    IF DOMAIN category = {} THEN 0 ELSE Max(DOMAIN category) - 1

\* max_id = select(func.max(ItemCategory.id)).one() or 0
MaxCategoryId == IF DOMAIN category = {} THEN 0 ELSE Max(DOMAIN category)

AcMax(p) ==
    /\ pc[p] = "ac_max"
    /\ Goto(p, "ac_commit", [loc[p] EXCEPT !.new_id = MaxCategoryId + 1])
    /\ UNCHANGED <<store, pending>>

\* session.add(new_cat); session.commit(); return new_cat.id
AcCommit(p) ==
    /\ pc[p] = "ac_commit"
    /\ IF loc[p].new_id \in DOMAIN category
       THEN Rollback(p) /\ Finish(p, Msg(IntegrityError))
       ELSE /\ category' = Extend(category, loc[p].new_id,
                                  [name |-> loc[p].name, total |-> 0])
            /\ CommitLogs(p)
            /\ UNCHANGED <<item_list, list_order, item_info>>
            /\ Finish(p, Id(loc[p].new_id))

\* ------------------------------------------------------------ add_list
CallAddList(p, name, category_id) ==
    /\ Begin(p, "al_select", [Blank EXCEPT !.op = "add_list", !.name = name,
                                           !.category_id = category_id])
    /\ UNCHANGED <<store, pending>>

AlSelect(p) ==
    /\ pc[p] = "al_select"
    /\ LET existing == {l \in DOMAIN item_list : item_list[l].name = loc[p].name}
       IN  IF existing # {}
           THEN \E l \in existing : Finish(p, Id(l))
           ELSE Goto(p, "al_siblings", loc[p])
    /\ UNCHANGED <<store, pending>>

\* select(ItemList).where(father == category_id).all(), in the store's order
SubItems(category_id) ==
    SelectSeq(list_order, LAMBDA l : item_list[l].father = category_id)

\* suffix = (sub_items[-1].id % 1000) + 1, or 1; new_id = 1000 * category_id + suffix
NewListId(category_id) ==
    LET sub_items == SubItems(category_id)
        suffix == IF sub_items # <<>> THEN (Last(sub_items) % IdBase) + 1 ELSE 1
    IN  (IdBase * category_id) + suffix

AlSiblings(p) ==
    /\ pc[p] = "al_siblings"
    /\ Goto(p, "al_commit", [loc[p] EXCEPT !.new_id = NewListId(loc[p].category_id)])
    /\ UNCHANGED <<store, pending>>

AlCommit(p) ==
    /\ pc[p] = "al_commit"
    /\ IF \/ ~ForeignKey(loc[p].category_id, category)
          \/ loc[p].new_id \in DOMAIN item_list
       THEN Rollback(p) /\ Finish(p, Msg(IntegrityError))
       ELSE /\ item_list' = Extend(item_list, loc[p].new_id,
                                   [father |-> loc[p].category_id, name |-> loc[p].name,
                                    total |-> 0, free |-> 0, broken |-> 0])
            /\ list_order' = Append(list_order, loc[p].new_id)
            /\ CommitLogs(p)
            /\ UNCHANGED <<category, item_info>>
            /\ Finish(p, Id(loc[p].new_id))

\* ------------------------------------------------------------ sync_item_counts
\* select(func.count(ItemInfo.id)).where(father == list_id)
CountTotal(list_id) ==
    Cardinality({i \in DOMAIN item_info : item_info[i].father = list_id})

\* A slip in the free count: the wrong status is counted.
CountFreeLent(list_id) ==
    Cardinality({i \in DOMAIN item_info : /\ item_info[i].father = list_id
                                          /\ item_info[i].useable = LENT})

\* ... .where(father == list_id, useable == ItemStatus.AVAILABLE)
CountFree(list_id) ==
    Cardinality({i \in DOMAIN item_info : /\ item_info[i].father = list_id
                                          /\ item_info[i].useable = AVAILABLE})

\* A slip in the broken count: the stored count is kept, not counted anew.
CountBrokenStored(list_id) ==
    IF list_id \in DOMAIN item_list THEN item_list[list_id].broken ELSE 0

\* ... .where(father == list_id, useable == ItemStatus.SCRAPPED)
CountBroken(list_id) ==
    Cardinality({i \in DOMAIN item_info : /\ item_info[i].father = list_id
                                          /\ item_info[i].useable = SCRAPPED})

\* What the caller of sync_item_counts returns once it is back.
\* add_item, apply_item and set_item_state return None; return_item its message.
CallerResult(p) ==
    IF loc[p].op = "return_item"
    THEN IF members[loc[p].user_id].root = 1 THEN Msg(OkHelped) ELSE Msg(OkReturned)
    ELSE Msg(None)

\* sync_item_counts(session, list_id), called on its own.
CallSyncItemCounts(p, list_id) ==
    /\ Begin(p, "sy_total", [Blank EXCEPT !.op = "sync_item_counts",
                                          !.list_id = list_id])
    /\ UNCHANGED <<store, pending>>

SyTotal(p) ==
    /\ pc[p] = "sy_total"
    /\ Goto(p, "sy_free", [loc[p] EXCEPT !.total = CountTotal(loc[p].list_id)])
    /\ UNCHANGED <<store, pending>>

SyFree(p) ==
    /\ pc[p] = "sy_free"
    /\ Goto(p, "sy_broken", [loc[p] EXCEPT !.free = CountFree(loc[p].list_id)])
    /\ UNCHANGED <<store, pending>>

SyBroken(p) ==
    /\ pc[p] = "sy_broken"
    /\ Goto(p, "sy_get_list", [loc[p] EXCEPT !.broken = CountBroken(loc[p].list_id)])
    /\ UNCHANGED <<store, pending>>

\* item_list = session.get(ItemList, list_id); if item_list: ...
SyGetList(p) ==
    /\ pc[p] = "sy_get_list"
    /\ IF loc[p].list_id \in DOMAIN item_list
       THEN Goto(p, "sy_sum", [loc[p] EXCEPT !.list_row = item_list[loc[p].list_id]])
       ELSE Finish(p, CallerResult(p))
    /\ UNCHANGED <<store, pending>>

\* The row of item_list the session has written and not committed: it holds the
\* row's lock until its commit.
HoldsListRow(q, list_id) ==
    /\ pc[q] \in {"sy_get_cat", "sy_commit"}
    /\ loc[q].list_id = list_id
    /\ loc[q].list_new # NoRow

\* The columns the unit of work writes are those whose value differs from the
\* loaded row: UPDATE item_list SET <changed columns> WHERE id = list_id.
ListUpdate(row, loaded, l) ==
    [row EXCEPT !.total = IF l.total # loaded.total THEN l.total ELSE @,
                !.free = IF l.free # loaded.free THEN l.free ELSE @,
                !.broken = IF l.broken # loaded.broken THEN l.broken ELSE @]

ListDirty(loaded, l) ==
    \/ l.total # loaded.total
    \/ l.free # loaded.free
    \/ l.broken # loaded.broken

\* A slip in the category total: the List's own total instead of the sum.
CatTotalOwnList(category_id, list_id, list_new) ==
    IF list_new # NoRow THEN list_new.total ELSE item_list[list_id].total

\* select(func.sum(ItemList.total)).where(father == category_id) or 0, as the
\* session sees it: its own written row, everybody else's committed rows.
CatTotal(category_id, list_id, list_new) ==
    LET seen == [x \in DOMAIN item_list |->
                    IF x = list_id /\ list_new # NoRow
                    THEN list_new.total ELSE item_list[x].total]
    IN  Sum(seen, {x \in DOMAIN item_list : item_list[x].father = category_id})

\* item_list.total = total; ...; the query below autoflushes the UPDATE.
SySum(p) ==
    /\ pc[p] = "sy_sum"
    /\ LET l == loc[p]
           dirty == ListDirty(l.list_row, l)
           list_new == IF dirty THEN ListUpdate(item_list[l.list_id], l.list_row, l)
                       ELSE NoRow
       IN  /\ dirty => \A q \in Sessions \ {p} : ~HoldsListRow(q, l.list_id)
           /\ Goto(p, "sy_get_cat",
                   [l EXCEPT !.list_new = list_new,
                             !.cat_total = CatTotal(l.list_row.father, l.list_id, list_new)])
    /\ UNCHANGED <<store, pending>>

\* category = session.get(ItemCategory, category_id)
SyGetCat(p) ==
    /\ pc[p] = "sy_get_cat"
    /\ LET category_id == loc[p].list_row.father
       IN  Goto(p, "sy_commit",
                [loc[p] EXCEPT !.cat_row = IF category_id \in DOMAIN category
                                           THEN category[category_id] ELSE NoRow])
    /\ UNCHANGED <<store, pending>>

\* A rewritten row may come back at another place of an unordered SELECT.
Rewritten(order, list_id, moved) ==
    IF moved THEN Append(SelectSeq(order, LAMBDA x : x # list_id), list_id) ELSE order

\* category.total = cat_total; session.commit()
SyCommit(p) ==
    /\ pc[p] = "sy_commit"
    /\ LET l == loc[p]
           category_id == l.list_row.father
       IN  /\ IF l.list_new # NoRow
              THEN /\ item_list' = [item_list EXCEPT ![l.list_id] = l.list_new]
                   /\ \E moved \in BOOLEAN :
                         list_order' = Rewritten(list_order, l.list_id, moved)
              ELSE UNCHANGED <<item_list, list_order>>
           /\ IF l.cat_row # NoRow /\ l.cat_total # l.cat_row.total
              THEN category' = [category EXCEPT ![category_id].total = l.cat_total]
              ELSE UNCHANGED category
    /\ CommitLogs(p)
    /\ UNCHANGED item_info
    /\ Finish(p, CallerResult(p))

\* ------------------------------------------------------------ add_item
CallAddItem(p, name_id, num, num_broken, wis, do) ==
    /\ Begin(p, "ai_select", [Blank EXCEPT !.op = "add_item", !.name_id = name_id,
                                           !.num = num, !.num_broken = num_broken,
                                           !.wis = wis, !.do = do])
    /\ UNCHANGED <<store, pending>>

\* existing_items ordered by id descending; base_suffix = (existing_items[0].id % 1000) + 1
BaseSuffix(name_id) ==
    LET existing_items == {i \in DOMAIN item_info : item_info[i].father = name_id}
    IN  IF existing_items # {} THEN (Max(existing_items) % IdBase) + 1 ELSE 1

AiSelect(p) ==
    /\ pc[p] = "ai_select"
    /\ Goto(p, "ai_commit", [loc[p] EXCEPT !.base_suffix = BaseSuffix(loc[p].name_id)])
    /\ UNCHANGED <<store, pending>>

\* A slip in the id: the id of the List is left out.
NewItemIdNoParent(l, i) == l.base_suffix + i

\* new_item_id = (name_id * 1000) + base_suffix + i
NewItemId(l, i) == (l.name_id * IdBase) + l.base_suffix + i

NewItemIds(l) == {NewItemId(l, i) : i \in 0 .. (l.num - 1)}

\* A slip in the status of a new item: one item too many is broken.
NewItemOneMoreBroken(l, i) ==
    [father |-> l.name_id,
     useable |-> IF i <= l.num_broken THEN SCRAPPED ELSE AVAILABLE,
     wis |-> l.wis, do |-> l.do]

\* status = SCRAPPED if i < num_broken else AVAILABLE
NewItem(l, i) ==
    [father |-> l.name_id,
     useable |-> IF i < l.num_broken THEN SCRAPPED ELSE AVAILABLE,
     wis |-> l.wis, do |-> l.do]

\* session.commit() of the batch, then sync_item_counts(session, name_id)
AiCommit(p) ==
    /\ pc[p] = "ai_commit"
    /\ LET l == loc[p]
       IN  IF /\ l.num > 0
              /\ \/ ~ForeignKey(l.name_id, item_list)
                 \/ NewItemIds(l) \cap DOMAIN item_info # {}
           THEN Rollback(p) /\ Finish(p, Msg(IntegrityError))
           ELSE /\ item_info' =
                     [x \in DOMAIN item_info \cup NewItemIds(l) |->
                         IF x \in NewItemIds(l)
                         THEN NewItem(l, x - NewItemId(l, 0))
                         ELSE item_info[x]]
                /\ CommitLogs(p)
                /\ UNCHANGED <<category, item_list, list_order>>
                /\ Goto(p, "sy_total", [l EXCEPT !.list_id = l.name_id])

\* ------------------------------------------------------------ set_item_state
CallSetItemState(p, oid, user_id, operation, useable, wis, do) ==
    /\ Begin(p, "ss_get", [Blank EXCEPT !.op = "set_item_state", !.oid = oid,
                                        !.user_id = user_id, !.operation = operation,
                                        !.useable = useable, !.wis = wis, !.do = do])
    /\ UNCHANGED <<store, pending>>

\* apply_item: set_item_state(session, oid, user_id, "APPLY", ItemStatus.APPLYING, do=do)
CallApplyItem(p, oid, user_id, do) ==
    /\ Begin(p, "ss_get", [Blank EXCEPT !.op = "apply_item", !.oid = oid,
                                        !.user_id = user_id, !.operation = "APPLY",
                                        !.useable = APPLYING, !.do = do])
    /\ UNCHANGED <<store, pending>>

\* Log(userId=user_id, operation=operation, object=oid, do=do)
LogRow(l) == [userId |-> l.user_id, operation |-> l.operation, object |-> l.oid, do |-> l.do]

\* session.get(ItemInfo, oid): the object the session already holds, else the row
GetItem(l) ==
    IF l.item # NoRow THEN l.item
    ELSE IF l.oid \in DOMAIN item_info THEN item_info[l.oid] ELSE NoRow

\* session.add(log); item = session.get(ItemInfo, oid); if item: ...
SsGet(p) ==
    /\ pc[p] = "ss_get"
    /\ pending' = [pending EXCEPT ![p] = Append(@, LogRow(loc[p]))]
    /\ LET item == GetItem(loc[p])
       IN  IF item = NoRow
           THEN Finish(p, Msg(None))
           ELSE Goto(p, "ss_commit", [loc[p] EXCEPT !.item = item])
    /\ UNCHANGED store

\* item.useable = useable; if wis is not None: item.wis = wis
\* (UPDATE item_info SET <the columns that differ from the loaded object>)
ItemUpdate(row, loaded, l) ==
    [row EXCEPT !.useable = IF l.useable # loaded.useable THEN l.useable ELSE @,
                !.wis = IF l.wis # None /\ l.wis # loaded.wis THEN l.wis ELSE @]

\* session.add(item); session.commit(); sync_item_counts(session, item.father)
SsCommit(p) ==
    /\ pc[p] = "ss_commit"
    /\ LET l == loc[p]
       IN  /\ item_info' = [item_info EXCEPT ![l.oid] = ItemUpdate(@, l.item, l)]
           /\ Goto(p, "sy_total", [l EXCEPT !.list_id = l.item.father])
    /\ CommitLogs(p)
    /\ UNCHANGED <<category, item_list, list_order>>

\* ------------------------------------------------------------ return_item
CallReturnItem(p, oid, user_id) ==
    /\ Begin(p, "rt_get_item", [Blank EXCEPT !.op = "return_item", !.oid = oid,
                                             !.user_id = user_id])
    /\ UNCHANGED <<store, pending>>

\* item = session.get(ItemInfo, oid); if not item: return "Error: ..."
RtGetItem(p) ==
    /\ pc[p] = "rt_get_item"
    /\ IF loc[p].oid \in DOMAIN item_info
       THEN Goto(p, "rt_check", [loc[p] EXCEPT !.item = item_info[loc[p].oid]])
       ELSE Finish(p, Msg(ErrItemNotFound))
    /\ UNCHANGED <<store, pending>>

\* A slip in the checks: the holder check is left out.
ReturnCheckNoHolder(item, user_id) ==
    IF user_id \notin DOMAIN members THEN ErrUserNotFound
    ELSE IF item.useable = SCRAPPED THEN ErrScrapped
    ELSE IF item.useable = APPLYING THEN ErrApplying
    ELSE None

\* A slip in the checks: the holder check comes before the status checks.
ReturnCheckHolderFirst(item, user_id) ==
    IF user_id \notin DOMAIN members THEN ErrUserNotFound
    ELSE IF item.wis # members[user_id].name /\ members[user_id].root # 1
         THEN ErrNotHolder
    ELSE IF item.useable = SCRAPPED THEN ErrScrapped
    ELSE IF item.useable = APPLYING THEN ErrApplying
    ELSE None

\* A slip in the checks: an item being applied for can be returned.
ReturnCheckNoApplying(item, user_id) ==
    IF user_id \notin DOMAIN members THEN ErrUserNotFound
    ELSE IF item.useable = SCRAPPED THEN ErrScrapped
    ELSE IF item.wis # members[user_id].name /\ members[user_id].root # 1
         THEN ErrNotHolder
    ELSE None

\* The checks of return_item after the item is loaded, in the order of the code;
\* None when they all pass.
ReturnCheck(item, user_id) ==
    IF user_id \notin DOMAIN members THEN ErrUserNotFound
    ELSE IF item.useable = SCRAPPED THEN ErrScrapped
    ELSE IF item.useable = APPLYING THEN ErrApplying
    ELSE IF item.wis # members[user_id].name /\ members[user_id].root # 1
         THEN ErrNotHolder
    ELSE None

\* member = session.get(Member, user_id) and the checks; then
\* set_item_state(session, oid, user_id, "RETURN", ItemStatus.AVAILABLE, wis="仓库", do="null")
RtCheck(p) ==
    /\ pc[p] = "rt_check"
    /\ LET err == ReturnCheck(loc[p].item, loc[p].user_id)
       IN  IF err # None
           THEN Finish(p, Msg(err))
           ELSE Goto(p, "ss_get", [loc[p] EXCEPT !.operation = "RETURN",
                                                 !.useable = AVAILABLE,
                                                 !.wis = Warehouse, !.do = NullDo])
    /\ UNCHANGED <<store, pending>>

\* ------------------------------------------------------------ handle_command
\* A command is the sequence of its characters.
StartsWithSlash(command) == Len(command) > 0 /\ command[1] = "/"

\* command.strip().split(): the words between runs of blanks.
RECURSIVE Split(_)
Split(s) ==
    IF s = <<>> THEN <<>>
    ELSE IF s[1] = " " THEN Split(Tail(s))
    ELSE LET n == IF \E k \in 1..Len(s) : s[k] = " "
                  THEN (CHOOSE k \in 1..Len(s) :
                            s[k] = " " /\ \A j \in 1..(k - 1) : s[j] # " ") - 1
                  ELSE Len(s)
         IN  <<SubSeq(s, 1, n)>> \o Split(SubSeq(s, n + 1, Len(s)))

Digit(ch) ==
    CASE ch = "0" -> 0 [] ch = "1" -> 1 [] ch = "2" -> 2 [] ch = "3" -> 3
      [] ch = "4" -> 4 [] ch = "5" -> 5 [] ch = "6" -> 6 [] ch = "7" -> 7
      [] ch = "8" -> 8 [] ch = "9" -> 9 [] OTHER -> -1

\* int(params[0]) raises ValueError on a word that is no number.
IsInt(w) == w # <<>> /\ \A k \in 1..Len(w) : Digit(w[k]) >= 0

RECURSIVE ToInt(_)
ToInt(w) == IF w = <<>> THEN 0
            ELSE 10 * ToInt(SubSeq(w, 1, Len(w) - 1)) + Digit(w[Len(w)])

\* The keys of command_map.
CommandMap ==
    {<<"h", "e", "l", "p">>, <<"a", "d", "d">>, <<"d", "e", "l">>,
     <<"s", "e", "a", "r", "c", "h">>, <<"r", "e", "t", "u", "r", "n">>}

\* A slip in the list: /del is open to everyone.
AdminCommandsAddOnly == {<<"a", "d", "d">>}

\* admin_commands = ['add', 'del']
AdminCommands == {<<"a", "d", "d">>, <<"d", "e", "l">>}

ObjTypes ==
    {<<"i", "t", "e", "m">>, <<"l", "i", "s", "t">>,
     <<"c", "a", "t", "e", "g", "o", "r", "y">>}

\* _handle_add_command and _handle_del_command: they check their parameters and
\* answer that the function is still to be written.
HandleAddDel(params) ==
    IF Len(params) < 2 THEN ErrParams
    ELSE IF params[1] \notin ObjTypes THEN ErrObjType
    ELSE InfoTodo

\* _handle_search_command
HandleSearch(params) ==
    IF Len(params) < 1 THEN ErrParams
    ELSE IF IsInt(params[1]) THEN InfoTodo
    ELSE ErrNotNumber

\* What _handle_return_command answers without calling return_item; None when
\* it calls it.
HandleReturn(params) ==
    IF Len(params) < 1 THEN ErrParams
    ELSE IF IsInt(params[1]) THEN None
    ELSE ErrNotNumber

\* The answer of handle_command before a handler runs; None when one runs.
Refusal(user_id, command) ==
    IF Tail(Split(command)[1]) \notin CommandMap THEN ErrUnknownCommand
    ELSE IF user_id \notin DOMAIN members THEN ErrNoUser
    ELSE IF Tail(Split(command)[1]) \in AdminCommands /\ members[user_id].root # 1
         THEN ErrPermission
    ELSE None

CallHandleCommand(p, user_id, command) ==
    /\ Begin(p, "hc_dispatch", [Blank EXCEPT !.op = "handle_command",
                                             !.user_id = user_id,
                                             !.command = command])
    /\ UNCHANGED <<store, pending>>

\* The handler runs and answers.
HcAnswer(p, cmd, r) ==
    /\ pc' = [pc EXCEPT ![p] = "idle"]
    /\ ret' = [ret EXCEPT ![p] = Msg(r)]
    /\ loc' = [loc EXCEPT ![p].handler = cmd]
    /\ UNCHANGED pre

\* handle_command up to the handler; /return goes on in return_item.
HcDispatch(p) ==
    /\ pc[p] = "hc_dispatch"
    /\ LET command == loc[p].command
           parts == Split(command)
           cmd == Tail(parts[1])
           params == Tail(parts)
       IN  IF ~StartsWithSlash(command) THEN Finish(p, Msg(None))
           ELSE IF Refusal(loc[p].user_id, command) # None
                THEN Finish(p, Msg(Refusal(loc[p].user_id, command)))
           ELSE IF cmd = <<"h", "e", "l", "p">> THEN HcAnswer(p, cmd, HelpText)
           ELSE IF cmd \in {<<"a", "d", "d">>, <<"d", "e", "l">>}
                THEN HcAnswer(p, cmd, HandleAddDel(params))
           ELSE IF cmd = <<"s", "e", "a", "r", "c", "h">>
                THEN HcAnswer(p, cmd, HandleSearch(params))
           ELSE IF HandleReturn(params) # None
                THEN HcAnswer(p, cmd, HandleReturn(params))
           ELSE /\ pc' = [pc EXCEPT ![p] = "rt_get_item"]
                /\ loc' = [loc EXCEPT ![p].handler = cmd,
                                      ![p].op = "return_item",
                                      ![p].oid = ToInt(params[1])]
                /\ UNCHANGED <<ret, pre>>
    /\ UNCHANGED <<store, pending>>

\* ------------------------------------------------------------ the session ends
\* with Session(engine) as session: ... -- leaving the block rolls back what the
\* session has not committed.
CloseSession(p) ==
    /\ pc[p] = "idle"
    /\ pending[p] # <<>>
    /\ pending' = [pending EXCEPT ![p] = <<>>]
    /\ loc' = [loc EXCEPT ![p] = Blank]
    /\ UNCHANGED <<store, pc, ret, pre>>

\* ------------------------------------------------------------ specifications
NoPending == [p \in Sessions |-> <<>>]

EmptyStore == [category |-> <<>>, item_list |-> <<>>, item_info |-> <<>>, logs |-> <<>>,
               pending |-> NoPending]

InitSessions ==
    /\ pc = [p \in Sessions |-> "idle"]
    /\ loc = [p \in Sessions |-> Blank]
    /\ pending = NoPending
    /\ ret = [p \in Sessions |-> Msg(None)]

\* The tables after create_db_and_tables(): empty.
Init ==
    /\ category = <<>>
    /\ item_list = <<>>
    /\ list_order = <<>>
    /\ item_info = <<>>
    /\ logs = <<>>
    /\ InitSessions
    /\ pre = [p \in Sessions |-> EmptyStore]

AllIdle == \A p \in Sessions : pc[p] = "idle"

\* The inputs of the calls.
CatNames == {"c1", "c2"}
ListInputs == {<<"l1", 1>>, <<"l2", 1>>, <<"l3", 2>>}
ItemIds == DOMAIN item_info \cup {0}

\* One statement of the call session p is running.
Step(p) ==
    \/ AcSelect(p) \/ AcMax(p) \/ AcCommit(p)
    \/ AlSelect(p) \/ AlSiblings(p) \/ AlCommit(p)
    \/ AiSelect(p) \/ AiCommit(p)
    \/ SsGet(p) \/ SsCommit(p)
    \/ RtGetItem(p) \/ RtCheck(p)
    \/ SyTotal(p) \/ SyFree(p) \/ SyBroken(p) \/ SyGetList(p)
    \/ SySum(p) \/ SyGetCat(p) \/ SyCommit(p)

\* The calls of the ledger: every operation, on rows that exist and on ids that do not.
Call(p) ==
    \/ \E name \in CatNames : CallAddCategory(p, name)
    \/ \E in \in ListInputs : CallAddList(p, in[1], in[2])
    \/ \E name_id \in DOMAIN item_list, num \in 0 .. MaxNum, num_broken \in 0 .. 1 :
          /\ num_broken <= num
          /\ Cardinality(DOMAIN item_info) + num <= MaxItems
          /\ CallAddItem(p, name_id, num, num_broken, Warehouse, DefaultDo)
    \/ \E oid \in DOMAIN item_info :
          /\ LogRows < MaxLogs
          /\ CallApplyItem(p, oid, "alice", "apply")
    \/ \E oid \in DOMAIN item_info :
          /\ LogRows < MaxLogs
          /\ CallReturnItem(p, oid, "admin")
    \/ \E oid \in DOMAIN item_info, useable \in {LENT, SCRAPPED} :
          /\ LogRows < MaxLogs
          /\ CallSetItemState(p, oid, "admin", "SET", useable, None, None)

\* One caller, one call at a time (no interleaving).
Next ==
    \/ Call(1)
    \/ Step(1)

Spec == Init /\ [][Next]_vars

\* ------------------------------------------------------------ lifecycle runs
\* The store after add_category("c1"), add_list("l1", 1) and
\* add_item(1001, 1, 0, "仓库"): one AVAILABLE Item in the warehouse.
LifecycleStore ==
    [category |-> (1 :> [name |-> "c1", total |-> 1]),
     item_list |-> (1001 :> [father |-> 1, name |-> "l1", total |-> 1,
                             free |-> 1, broken |-> 0]),
     item_info |-> (1001001 :> [father |-> 1001, useable |-> AVAILABLE,
                                wis |-> Warehouse, do |-> DefaultDo]),
     logs |-> <<>>, pending |-> NoPending]

InitLifecycle ==
    /\ category = LifecycleStore.category
    /\ item_list = LifecycleStore.item_list
    /\ list_order = <<1001>>
    /\ item_info = LifecycleStore.item_info
    /\ logs = <<>>
    /\ InitSessions
    /\ pre = [p \in Sessions |-> LifecycleStore]

\* apply, return and the low-level set_item_state, by every kind of caller.
CallLifecycle(p) ==
    /\ LogRows < MaxLifecycleLogs
    /\ \/ \E oid \in ItemIds : CallApplyItem(p, oid, "bob", "apply")
       \/ \E oid \in ItemIds, user_id \in UserIds : CallReturnItem(p, oid, user_id)
       \/ \E oid \in ItemIds, useable \in {LENT, REPAIRING, SCRAPPED},
             wis \in {None, "Alice"} :
             CallSetItemState(p, oid, "admin", "SET", useable, wis, None)

StepLifecycle(p) ==
    \/ SsGet(p) \/ SsCommit(p)
    \/ RtGetItem(p) \/ RtCheck(p)
    \/ SyTotal(p) \/ SyFree(p) \/ SyBroken(p) \/ SyGetList(p)
    \/ SySum(p) \/ SyGetCat(p) \/ SyCommit(p)

\* One caller, one call at a time.
NextLifecycle ==
    \/ CallLifecycle(1)
    \/ StepLifecycle(1)
    \/ CloseSession(1)

SpecLifecycle == InitLifecycle /\ [][NextLifecycle]_vars

\* ------------------------------------------------------------ repeated returns
\* Two callers, each on a session of its own, one call at a time: the item is
\* lent to Alice and returned, by Alice or by the admin, again and again.
CallRepeat(p) ==
    /\ AllIdle
    /\ LogRows < MaxRepeatLogs
    /\ \/ \E user_id \in {"alice", "admin"} : CallReturnItem(p, 1001001, user_id)
       \/ CallSetItemState(p, 1001001, "admin", "LEND", LENT, "Alice", None)

NextRepeat ==
    \E p \in Sessions :
        \/ CallRepeat(p)
        \/ StepLifecycle(p)

SpecRepeat == InitLifecycle /\ [][NextRepeat]_vars

\* ------------------------------------------------------------ concurrent callers
\* A List of two items, both lent to Alice, as two add_item and two
\* set_item_state calls leave it.
ConcLend(oid) == [userId |-> "admin", operation |-> "LEND", object |-> oid, do |-> None]

ConcStore ==
    [category |-> (1 :> [name |-> "c1", total |-> 2]),
     item_list |-> (1001 :> [father |-> 1, name |-> "l1", total |-> 2,
                             free |-> 0, broken |-> 0]),
     item_info |-> [oid \in {1001001, 1001002} |->
                       [father |-> 1001, useable |-> LENT,
                        wis |-> "Alice", do |-> DefaultDo]],
     logs |-> <<ConcLend(1001001), ConcLend(1001002)>>, pending |-> NoPending]

InitConc ==
    /\ category = ConcStore.category
    /\ item_list = ConcStore.item_list
    /\ list_order = <<1001>>
    /\ item_info = ConcStore.item_info
    /\ logs = ConcStore.logs
    /\ InitSessions
    /\ pre = [p \in Sessions |-> ConcStore]

\* Returns and additions on the one List.
CallConc(p) ==
    \/ \E oid \in {1001001, 1001002} :
          /\ LogRows < MaxConcLogs
          /\ CallReturnItem(p, oid, "alice")
    \/ /\ Cardinality(DOMAIN item_info) < MaxConcItems
       /\ CallAddItem(p, 1001, 1, 0, Warehouse, DefaultDo)

StepConc(p) ==
    \/ AiSelect(p) \/ AiCommit(p)
    \/ SsGet(p) \/ SsCommit(p)
    \/ RtGetItem(p) \/ RtCheck(p)
    \/ SyTotal(p) \/ SyFree(p) \/ SyBroken(p) \/ SyGetList(p)
    \/ SySum(p) \/ SyGetCat(p) \/ SyCommit(p)

\* Two callers, each on a session of its own, their steps interleaved.
NextConc ==
    \E p \in Sessions :
        \/ CallConc(p)
        \/ StepConc(p)

SpecConc == InitConc /\ [][NextConc]_vars

\* ------------------------------------------------------------ Lists of one Category
\* Three Categories and no List, as three add_category calls leave the tables.
ListsStore ==
    [category |-> [c \in 1 .. 3 |->
                      [name |-> CASE c = 1 -> "c1" [] c = 2 -> "c2" [] c = 3 -> "c3",
                       total |-> 0]],
     item_list |-> <<>>, item_info |-> <<>>, logs |-> <<>>, pending |-> NoPending]

InitLists ==
    /\ category = ListsStore.category
    /\ item_list = <<>>
    /\ list_order = <<>>
    /\ item_info = <<>>
    /\ logs = <<>>
    /\ InitSessions
    /\ pre = [p \in Sessions |-> ListsStore]

\* Lists are added to Category 3 and to Category 7, which is not there; items
\* to the Lists there are and to List 3, which is not there; a Category is added
\* under a name there is and under a new one.
CallLists(p) ==
    \/ \E name \in {"c3", "c4"} : CallAddCategory(p, name)
    \/ \E name \in {"Motor", "Battery", "Cable"}, category_id \in {3, 7} :
          CallAddList(p, name, category_id)
    \/ \E name_id \in DOMAIN item_list \cup {3} :
          /\ Cardinality(DOMAIN item_info) < MaxListItems
          /\ CallAddItem(p, name_id, 1, 0, Warehouse, DefaultDo)

StepLists(p) ==
    \/ AcSelect(p) \/ AcMax(p) \/ AcCommit(p)
    \/ AlSelect(p) \/ AlSiblings(p) \/ AlCommit(p)
    \/ AiSelect(p) \/ AiCommit(p)
    \/ SyTotal(p) \/ SyFree(p) \/ SyBroken(p) \/ SyGetList(p)
    \/ SySum(p) \/ SyGetCat(p) \/ SyCommit(p)

\* One caller, one call at a time.
NextLists ==
    \/ CallLists(1)
    \/ StepLists(1)

SpecLists == InitLists /\ [][NextLists]_vars

\* ------------------------------------------------------------ Lists that fill up
\* Category 3 with the Lists 3001 and 3002, both empty, as add_category and
\* add_list leave them.
FillStore ==
    [category |-> ListsStore.category,
     item_list |-> [l \in {3001, 3002} |->
                       [father |-> 3, name |-> IF l = 3001 THEN "Motor" ELSE "Battery",
                        total |-> 0, free |-> 0, broken |-> 0]],
     item_info |-> <<>>, logs |-> <<>>, pending |-> NoPending]

InitFill ==
    /\ category = FillStore.category
    /\ item_list = FillStore.item_list
    /\ list_order = <<3001, 3002>>
    /\ item_info = <<>>
    /\ logs = <<>>
    /\ InitSessions
    /\ pre = [p \in Sessions |-> FillStore]

\* add_item(name_id, num=999): one batch that takes a List to the end of its ids.
BigBatch == IdBase - 1

\* Small batches (one good item, or MaxBatch items the first of them broken)
\* while few items were added in small batches, and one big batch: a big batch
\* adds BigBatch rows or none, so the rest of the division counts the others.
CallFill(p) ==
    \E name_id \in DOMAIN item_list :
        \/ \E in \in {<<1, 0>>, <<MaxBatch, 1>>} :
              /\ (Cardinality(DOMAIN item_info) % BigBatch) + in[1] <= MaxSmallItems
              /\ CallAddItem(p, name_id, in[1], in[2], Warehouse, DefaultDo)
        \/ /\ Cardinality(DOMAIN item_info) < BigBatch
           /\ CallAddItem(p, name_id, BigBatch, 0, Warehouse, DefaultDo)

StepFill(p) ==
    \/ AiSelect(p) \/ AiCommit(p)
    \/ SyTotal(p) \/ SyFree(p) \/ SyBroken(p) \/ SyGetList(p)
    \/ SySum(p) \/ SyGetCat(p) \/ SyCommit(p)

\* One caller, one call at a time.
NextFill ==
    \/ CallFill(1)
    \/ StepFill(1)

SpecFill == InitFill /\ [][NextFill]_vars

\* ---- commands of the chat robot, one caller, on the ledger of one item
MaxCommandLogs == 2

Commands ==
    {<<"/", "a", "d", "d", " ", "i", "t", "e", "m", " ", "x">>,
     <<"/", "a", "d", "d">>,
     <<"/", "d", "e", "l", " ", "l", "i", "s", "t", " ", "x">>,
     <<"/", "d", "e", "l", " ", "x", " ", "y">>,
     <<"/", "h", "e", "l", "p">>,
     <<"/", "f", "r", "o", "b">>,
     <<"h", "i">>,
     <<"/", "s", "e", "a", "r", "c", "h", " ", "5">>,
     <<"/", "r", "e", "t", "u", "r", "n">>,
     <<"/", "r", "e", "t", "u", "r", "n", " ", "x">>,
     <<"/", "r", "e", "t", "u", "r", "n", " ", " ", "1", "0", "0", "1", "0", "0", "1">>,
     <<"/", "r", "e", "t", "u", "r", "n", " ", "7">>}

InitCommand == InitLifecycle

CallCommand(p) ==
    \/ \E user_id \in UserIds, command \in Commands :
          /\ LogRows < MaxCommandLogs
          /\ CallHandleCommand(p, user_id, command)
    \/ \E oid \in ItemIds, wis \in {"Alice", "Bob"} :
          /\ LogRows < MaxCommandLogs
          /\ CallSetItemState(p, oid, "admin", "SET", LENT, wis, None)

StepCommand(p) == HcDispatch(p) \/ StepLifecycle(p)

NextCommand ==
    \/ CallCommand(1)
    \/ StepCommand(1)
    \/ CloseSession(1)

SpecCommand == InitCommand /\ [][NextCommand]_vars


\* ---- sync_item_counts on its own, from stored counts of any value
MaxStale == 2

\* Category 1 with the Lists 1001 (an AVAILABLE and a SCRAPPED Item) and 1002
\* (a LENT Item).
SyncItems ==
    (1001001 :> [father |-> 1001, useable |-> AVAILABLE, wis |-> Warehouse,
                 do |-> DefaultDo]) @@
    (1001002 :> [father |-> 1001, useable |-> SCRAPPED, wis |-> Warehouse,
                 do |-> DefaultDo]) @@
    (1002001 :> [father |-> 1002, useable |-> LENT, wis |-> "Alice",
                 do |-> DefaultDo])

InitSync ==
    /\ \E t \in 0..MaxStale : category = (1 :> [name |-> "c1", total |-> t])
    /\ \E t, f, b, u \in 0..MaxStale :
          item_list = (1001 :> [father |-> 1, name |-> "l1", total |-> t,
                                free |-> f, broken |-> b]) @@
                      (1002 :> [father |-> 1, name |-> "l2", total |-> u,
                                free |-> 0, broken |-> 0])
    /\ list_order = <<1001, 1002>>
    /\ item_info = SyncItems
    /\ logs = <<>>
    /\ InitSessions
    /\ pre = [p \in Sessions |-> Store]

CallSync(p) ==
    \E list_id \in DOMAIN item_list \cup {9999} : CallSyncItemCounts(p, list_id)

StepSync(p) ==
    \/ SyTotal(p) \/ SyFree(p) \/ SyBroken(p) \/ SyGetList(p)
    \/ SySum(p) \/ SyGetCat(p) \/ SyCommit(p)

NextSync == CallSync(1) \/ StepSync(1)

SpecSync == InitSync /\ [][NextSync]_vars

\* ---- two callers adding Lists at the same time
MaxConcLists == 2

ConcListsStore ==
    [category |-> [c \in 1 .. 2 |->
                      [name |-> IF c = 1 THEN "c1" ELSE "c2", total |-> 0]],
     item_list |-> <<>>, item_info |-> <<>>, logs |-> <<>>, pending |-> NoPending]

InitConcLists ==
    /\ category = ConcListsStore.category
    /\ item_list = <<>>
    /\ list_order = <<>>
    /\ item_info = <<>>
    /\ logs = <<>>
    /\ InitSessions
    /\ pre = [p \in Sessions |-> ConcListsStore]

CallConcLists(p) ==
    \E name \in {"Motor", "Cable"}, category_id \in DOMAIN category :
        /\ Cardinality(DOMAIN item_list) < MaxConcLists
        /\ CallAddList(p, name, category_id)

StepConcLists(p) == AlSelect(p) \/ AlSiblings(p) \/ AlCommit(p)

\* Two callers, each on a session of its own, their steps interleaved.
NextConcLists ==
    \E p \in Sessions :
        \/ CallConcLists(p)
        \/ StepConcLists(p)

SpecConcLists == InitConcLists /\ [][NextConcLists]_vars

\* ---- a return at the same time as an apply or a scrapping of the same item
MaxRaceLogs == 4

RaceItem == 1001001

InitRace == InitConc

CallRace(p) ==
    /\ LogRows < MaxRaceLogs
    /\ \/ \E user_id \in {"alice", "admin"} : CallReturnItem(p, RaceItem, user_id)
       \/ CallApplyItem(p, RaceItem, "bob", "apply")
       \/ CallSetItemState(p, RaceItem, "admin", "SET", SCRAPPED, None, None)

StepRace(p) ==
    \/ SsGet(p) \/ SsCommit(p)
    \/ RtGetItem(p) \/ RtCheck(p)
    \/ SyTotal(p) \/ SyFree(p) \/ SyBroken(p) \/ SyGetList(p)
    \/ SySum(p) \/ SyGetCat(p) \/ SyCommit(p)

\* Two callers, each on a session of its own, their steps interleaved.
NextRace ==
    \E p \in Sessions :
        \/ CallRace(p)
        \/ StepRace(p)

SpecRace == InitRace /\ [][NextRace]_vars

\* ------------------------------------------------------------ properties
\* Fresh counts over the committed item_info rows.
ItemsOf(list_id) == {i \in DOMAIN item_info : item_info[i].father = list_id}

ItemsWith(list_id, status) == {i \in ItemsOf(list_id) : item_info[i].useable = status}

ListsOf(category_id) == {l \in DOMAIN item_list : item_list[l].father = category_id}

ListFresh(l) ==
    /\ item_list[l].total = Cardinality(ItemsOf(l))
    /\ item_list[l].free = Cardinality(ItemsWith(l, AVAILABLE))
    /\ item_list[l].broken = Cardinality(ItemsWith(l, SCRAPPED))

\* C1: once every call has completed (no call in progress), every List's total,
\* free and broken equal the number of its Items, of its AVAILABLE Items and of
\* its SCRAPPED Items.
C1_ListCountsFresh ==
    AllIdle => \A l \in DOMAIN item_list : ListFresh(l)

\* A List whose one Item is neither AVAILABLE nor SCRAPPED: a status change was
\* logged and counted.
C1_Witness ==
    /\ AllIdle
    /\ logs # <<>>
    /\ \E l \in DOMAIN item_list :
          /\ item_list[l].total = 1
          /\ item_list[l].free = 0
          /\ item_list[l].broken = 0

\* C2: once every call has completed, every Category's total is the sum of the
\* totals of the Lists under it.
C2_CategoryTotalIsSum ==
    AllIdle => \A c \in DOMAIN category :
                  category[c].total = Sum([l \in DOMAIN item_list |-> item_list[l].total],
                                          ListsOf(c))

\* A Category with two Lists, one of them holding an Item, beside another
\* Category that has a List.
C2_Witness ==
    /\ AllIdle
    /\ \E c \in DOMAIN category :
          /\ Cardinality(ListsOf(c)) = 2
          /\ \E l \in ListsOf(c) : item_list[l].total = 1
          /\ category[c].total = 1
          /\ \E d \in DOMAIN category : d # c /\ ListsOf(d) # {}

\* ---- the completed call of a session, against the store it started from
Completed(p, op) == pc[p] = "idle" /\ loc[p].op = op

PreItem(p) == pre[p].item_info[loc[p].oid]

OnItem(p) == loc[p].oid \in DOMAIN pre[p].item_info

IsMember(p) == loc[p].user_id \in DOMAIN members

IsAdmin(p) == IsMember(p) /\ members[loc[p].user_id].root = 1

IsHolder(p) == IsMember(p) /\ OnItem(p) /\ PreItem(p).wis = members[loc[p].user_id].name

Unchanged(p) == Store = pre[p]

\* C6: applyItem on a SCRAPPED item fails with AlreadyScrapped; the status stays
\* SCRAPPED, no log entry is appended, no List or Category aggregate changes.
C6_ApplyScrappedFails ==
    \A p \in Sessions :
        (Completed(p, "apply_item") /\ OnItem(p) /\ PreItem(p).useable = SCRAPPED)
        => /\ ret[p] = Msg(ErrScrapped)
           /\ item_info[loc[p].oid].useable = SCRAPPED
           /\ logs = pre[p].logs
           /\ item_list = pre[p].item_list
           /\ category = pre[p].category

\* C7 as stated: returnItem by a Member who is neither admin nor the holder of the
\* item always fails with PermissionDenied, with no log entry and the status and
\* holder unchanged.
C7_NonHolderAlwaysDenied ==
    \A p \in Sessions :
        (Completed(p, "return_item") /\ OnItem(p) /\ IsMember(p)
            /\ ~IsAdmin(p) /\ ~IsHolder(p))
        => /\ ret[p] = Msg(ErrNotHolder)
           /\ Unchanged(p)

\* C7 as amended: such a call always fails, with no log entry and the status and
\* holder unchanged; the failure is PermissionDenied when the item is neither
\* SCRAPPED nor APPLYING, and the error of that status otherwise.
C7_NonHolderFails ==
    \A p \in Sessions :
        (Completed(p, "return_item") /\ OnItem(p) /\ IsMember(p)
            /\ ~IsAdmin(p) /\ ~IsHolder(p))
        => /\ ret[p] = Msg(CASE PreItem(p).useable = SCRAPPED -> ErrScrapped
                             [] PreItem(p).useable = APPLYING -> ErrApplying
                             [] OTHER -> ErrNotHolder)
           /\ Unchanged(p)

\* Bob was denied the return of an item lent to Alice.
C7_Witness ==
    /\ Completed(1, "return_item") /\ OnItem(1)
    /\ loc[1].user_id = "bob"
    /\ PreItem(1).useable = LENT /\ PreItem(1).wis = "Alice"
    /\ ret[1] = Msg(ErrNotHolder)

\* The outcome the specification gives returnItem, from the store the call
\* started from: the first failure condition that holds, in the order item not
\* found, member not found, scrapped, under application, permission.
ReturnFailure(p) ==
    IF ~OnItem(p) THEN ErrItemNotFound
    ELSE IF ~IsMember(p) THEN ErrUserNotFound
    ELSE IF PreItem(p).useable = SCRAPPED THEN ErrScrapped
    ELSE IF PreItem(p).useable = APPLYING THEN ErrApplying
    ELSE IF ~IsHolder(p) /\ ~IsAdmin(p) THEN ErrNotHolder
    ELSE None

ReturnFailures == {ErrItemNotFound, ErrUserNotFound, ErrScrapped, ErrApplying, ErrNotHolder}

\* C8: returnItem reports a distinct outcome for each of item not found, member
\* not found, item scrapped, item under application and permission denied, the
\* first that holds in that order; a failed call leaves items, aggregates and
\* log as they were.
C8_ReturnFailures ==
    /\ Cardinality(ReturnFailures) = 5
    /\ \A p \in Sessions :
          Completed(p, "return_item") =>
              /\ (ReturnFailure(p) # None) = (ret[p].msg \in ReturnFailures)
              /\ ReturnFailure(p) # None => ret[p] = Msg(ReturnFailure(p))
              /\ ret[p].msg \in ReturnFailures => Unchanged(p)

\* Bob asked to return a SCRAPPED item he does not hold: scrapped comes first.
C8_Witness ==
    /\ Completed(1, "return_item") /\ OnItem(1)
    /\ loc[1].user_id = "bob"
    /\ PreItem(1).useable = SCRAPPED /\ PreItem(1).wis = "Alice"
    /\ ret[1] = Msg(ErrScrapped)
    /\ logs # <<>>

\* The log entry of a return.
ReturnRow(p) == [userId |-> loc[p].user_id, operation |-> "RETURN",
                 object |-> loc[p].oid, do |-> NullDo]

Succeeded(p) == ret[p].msg \in {OkReturned, OkHelped}

\* The call of p was a return that every check lets through.
ReturnAllowed(p) ==
    /\ Completed(p, "return_item") /\ OnItem(p) /\ IsMember(p)
    /\ PreItem(p).useable \notin {SCRAPPED, APPLYING}
    /\ IsHolder(p) \/ IsAdmin(p)

\* C9: returnItem on an existing item that is neither SCRAPPED nor APPLYING, by
\* an existing Member who is its holder or an admin, sets the status AVAILABLE
\* and the holder to the warehouse, appends exactly one log entry, RETURN on the
\* item, and leaves the List's aggregates equal to a fresh count.
C9_ReturnSucceeds ==
    \A p \in Sessions :
        ReturnAllowed(p)
        => /\ Succeeded(p)
           /\ item_info[loc[p].oid].useable = AVAILABLE
           /\ item_info[loc[p].oid].wis = Warehouse
           /\ logs = pre[p].logs \o <<ReturnRow(p)>>
           /\ ListFresh(item_info[loc[p].oid].father)

\* What holds of the code: the commit of the return also writes the log rows an
\* earlier call on a missing item left uncommitted in the session.
C9_ReturnCommitsPending ==
    \A p \in Sessions :
        ReturnAllowed(p)
        => /\ ret[p] = Msg(IF IsAdmin(p) THEN OkHelped ELSE OkReturned)
           /\ item_info[loc[p].oid].useable = AVAILABLE
           /\ item_info[loc[p].oid].wis = Warehouse
           /\ logs = pre[p].logs \o pre[p].pending[p] \o <<ReturnRow(p)>>
           /\ ListFresh(item_info[loc[p].oid].father)

\* ---- the second of two returns in a row
\* The call of p was a return of an item by the Member whose return of that item
\* was the last change of the store, and left it AVAILABLE.
SecondReturn(p) ==
    /\ Completed(p, "return_item") /\ OnItem(p) /\ IsMember(p)
    /\ pre[p].logs # <<>>
    /\ Last(pre[p].logs) = ReturnRow(p)
    /\ PreItem(p).useable = AVAILABLE

\* The log once the call of p has completed.
PostLogs(p) ==
    IF Succeeded(p) THEN pre[p].logs \o pre[p].pending[p] \o <<ReturnRow(p)>>
    ELSE pre[p].logs

\* C10: the second of two returns in a row by the same Member on the same item
\* follows one policy whoever the caller is (it always succeeds, or it always
\* fails as not held), never reports AlreadyScrapped and leaves the status
\* AVAILABLE.
C10_SecondReturnOnePolicy ==
    \A p \in Sessions :
        SecondReturn(p) =>
            /\ ret[p] # Msg(ErrScrapped)
            /\ Succeeded(p) \/ ret[p] = Msg(ErrNotHolder)
            /\ logs = PostLogs(p) => item_info[loc[p].oid].useable = AVAILABLE
            /\ \A q \in Sessions : SecondReturn(q) => (Succeeded(q) = Succeeded(p))

\* What holds of the code: the second return succeeds for an admin and fails as
\* not held for everybody else.
C10_SecondReturnByCaller ==
    \A p \in Sessions :
        SecondReturn(p) =>
            /\ ret[p] = Msg(IF IsAdmin(p) THEN OkHelped ELSE ErrNotHolder)
            /\ logs = PostLogs(p) => item_info[loc[p].oid].useable = AVAILABLE

\* ---- units of work and concurrent callers
\* C3: an operation is one atomic unit of work: no committed state has item rows
\* applied while the aggregates of their List and Category are stale.
C3_AtomicUnitOfWork ==
    /\ \A l \in DOMAIN item_list : ListFresh(l)
    /\ \A c \in DOMAIN category :
          category[c].total = Sum([l \in DOMAIN item_list |-> item_list[l].total],
                                  ListsOf(c))

\* Both callers have returned an item, two different items of one List.
BothReturned(p, q) ==
    /\ p # q
    /\ Completed(p, "return_item") /\ Succeeded(p)
    /\ Completed(q, "return_item") /\ Succeeded(q)
    /\ loc[p].oid # loc[q].oid
    /\ loc[p].item.father = loc[q].item.father

\* C4: once two returns on different items of one List have both completed, the
\* free count of the List reflects both.
C4_BothReturnsCounted ==
    \A p, q \in Sessions :
        BothReturned(p, q) /\ AllIdle =>
            item_list[loc[p].item.father].free = CountFree(loc[p].item.father)

\* Both callers are adding items to one List and have computed their ids.
BothAdding(p, q) ==
    /\ p # q
    /\ pc[p] = "ai_commit" /\ pc[q] = "ai_commit"
    /\ loc[p].name_id = loc[q].name_id

\* C5: two add_item calls in progress on one List never compute the same id.
C5_DistinctIdsComputed ==
    \A p, q \in Sessions :
        BothAdding(p, q) => NewItemIds(loc[p]) \cap NewItemIds(loc[q]) = {}

\* ---- identifiers
\* The Lists of a Category in the store the call of p started from.
PreSiblings(p) ==
    {l \in DOMAIN pre[p].item_list : pre[p].item_list[l].father = loc[p].category_id}

\* The call of p was add_list with a name no List had, under an existing Category.
AddedList(p) ==
    /\ Completed(p, "add_list")
    /\ loc[p].category_id \in DOMAIN pre[p].category
    /\ \A l \in DOMAIN pre[p].item_list : pre[p].item_list[l].name # loc[p].name

\* 1000 * c + suffix, the suffix counted from the last-inserted sibling: Lists
\* are never deleted and their ids grow, so that is the sibling of largest id.
ExpectedListId(p) ==
    (IdBase * loc[p].category_id)
        + (IF PreSiblings(p) = {} THEN 1 ELSE (Max(PreSiblings(p)) % IdBase) + 1)

\* C11: add_list with a new name under Category c returns and stores the List
\* id 1000 * c + suffix, suffix 1 if c has no List and else (id of the
\* last-inserted sibling mod 1000) + 1.
C11_ListIdAllocated ==
    \A p \in Sessions :
        AddedList(p) =>
            /\ ret[p] = Id(ExpectedListId(p))
            /\ ExpectedListId(p) \in DOMAIN item_list
            /\ item_list[ExpectedListId(p)].name = loc[p].name
            /\ item_list[ExpectedListId(p)].father = loc[p].category_id

\* What holds of the code when no sibling row was rewritten: from Category 3
\* without Lists the first two add_list calls yield 3001, then 3002.
C11_FirstTwoLists ==
    \A p \in Sessions :
        (AddedList(p) /\ pre[p].item_info = <<>> /\ Cardinality(PreSiblings(p)) < 2)
        => ret[p] = Id(3001 + Cardinality(PreSiblings(p)))

\* ---- add_item
\* The call of p was add_item on an existing List.
AddedItems(p) ==
    Completed(p, "add_item") /\ loc[p].name_id \in DOMAIN pre[p].item_list

PreItemsOf(p) ==
    {i \in DOMAIN pre[p].item_info : pre[p].item_info[i].father = loc[p].name_id}

\* 1000 * listId + base + i for i = 0 .. count - 1, base counted from the
\* highest sibling id.
ExpectedItemId(p, i) ==
    (IdBase * loc[p].name_id)
        + (IF PreItemsOf(p) = {} THEN 1 ELSE (Max(PreItemsOf(p)) % IdBase) + 1) + i

ExpectedItemIds(p) == {ExpectedItemId(p, i) : i \in 0 .. (loc[p].num - 1)}

\* The batch of p is stored: count new rows with the expected ids, parent and
\* status, the older rows as they were, the List's counts fresh.
BatchStored(p) ==
    /\ DOMAIN item_info = DOMAIN pre[p].item_info \cup ExpectedItemIds(p)
    /\ Cardinality(DOMAIN item_info) = Cardinality(DOMAIN pre[p].item_info) + loc[p].num
    /\ \A i \in 0 .. (loc[p].num - 1) :
          /\ item_info[ExpectedItemId(p, i)].father = loc[p].name_id
          /\ item_info[ExpectedItemId(p, i)].useable =
                IF i < loc[p].num_broken THEN SCRAPPED ELSE AVAILABLE
    /\ \A x \in DOMAIN pre[p].item_info : item_info[x] = pre[p].item_info[x]
    /\ ListFresh(loc[p].name_id)

CategoriesNamed(cats, name) == {c \in DOMAIN cats : cats[c].name = name}

ListsNamed(lists, name) == {l \in DOMAIN lists : lists[l].name = name}

\* C13: add_category and add_list are idempotent on name: with the name stored
\* already the call returns the id of that row and the Category and List rows
\* are unchanged; in every case the call returns an id, and exactly one row has
\* the name afterwards, the row of that id (so a second call with the same
\* arguments returns the same id and there is one row).
C13_IdempotentOnName ==
    \A p \in Sessions :
        /\ Completed(p, "add_category") =>
              /\ CategoriesNamed(category, loc[p].name) = {ret[p].id}
              /\ ret[p].msg = "id"
              /\ item_list = pre[p].item_list
              /\ CategoriesNamed(pre[p].category, loc[p].name) # {}
                    => category = pre[p].category
        /\ (Completed(p, "add_list") /\ loc[p].category_id \in DOMAIN pre[p].category) =>
              /\ ListsNamed(item_list, loc[p].name) = {ret[p].id}
              /\ ret[p].msg = "id"
              /\ category = pre[p].category
              /\ ListsNamed(pre[p].item_list, loc[p].name) # {}
                    => item_list = pre[p].item_list

\* What holds of the code: a call with a name that is stored returns the id of
\* its row and changes nothing.
C13_StoredNameReturned ==
    \A p \in Sessions :
        /\ (Completed(p, "add_category")
               /\ CategoriesNamed(pre[p].category, loc[p].name) # {}) =>
              /\ CategoriesNamed(pre[p].category, loc[p].name) = {ret[p].id}
              /\ Unchanged(p)
        /\ (Completed(p, "add_list")
               /\ ListsNamed(pre[p].item_list, loc[p].name) # {}) =>
              /\ ListsNamed(pre[p].item_list, loc[p].name) = {ret[p].id}
              /\ Unchanged(p)

\* ---- add_category
\* The call of p was add_category with a name no Category had.
AddedCategory(p) ==
    Completed(p, "add_category") /\ CategoriesNamed(pre[p].category, loc[p].name) = {}

ExpectedCategoryId(p) ==
    IF DOMAIN pre[p].category = {} THEN 1 ELSE Max(DOMAIN pre[p].category) + 1

\* C14: add_category with a name not yet present creates a Category whose id is
\* max(existing ids) + 1, or 1 when there is none, with total 0; the id differs
\* from every existing Category id, and the other Categories stay as they were.
C14_CategoryIdAllocated ==
    \A p \in Sessions :
        AddedCategory(p) =>
            /\ ret[p] = Id(ExpectedCategoryId(p))
            /\ ExpectedCategoryId(p) \notin DOMAIN pre[p].category
            /\ DOMAIN category = DOMAIN pre[p].category \cup {ExpectedCategoryId(p)}
            /\ category[ExpectedCategoryId(p)] = [name |-> loc[p].name, total |-> 0]
            /\ \A c \in DOMAIN pre[p].category : category[c] = pre[p].category[c]

\* A second Category was added beside one that holds an item.
C14_Witness ==
    /\ AddedCategory(1)
    /\ ret[1] = Id(2)
    /\ pre[1].category[1].total = 1
    /\ category[2].total = 0

\* ---- parents
\* C15: no orphans: in every state reached through add_category, add_list and
\* add_item, whatever the ids passed, the father of every Item is the id of a
\* List and the father of every List is the id of a Category.
C15_NoOrphans ==
    /\ \A i \in DOMAIN item_info : item_info[i].father \in DOMAIN item_list
    /\ \A l \in DOMAIN item_list : item_list[l].father \in DOMAIN category

\* Items for a List that is not there were refused, in a store that has Lists.
C15_Witness ==
    /\ Completed(1, "add_item")
    /\ loc[1].name_id \notin DOMAIN item_list
    /\ loc[1].num > 0
    /\ ret[1] = Msg(IntegrityError)
    /\ item_list # <<>>

\* ---- ancestry
\* No id is the id of Items of two Lists.
DistinctItemIds ==
    \A l, m \in DOMAIN item_list : l # m => ItemsOf(l) \cap ItemsOf(m) = {}

StatusChange(p) == <<PreItem(p).useable, item_info[loc[p].oid].useable>>

ByApplyOrReturn(p) ==
    /\ Completed(p, "apply_item") \/ Completed(p, "return_item")
    /\ OnItem(p)

\* C17: SCRAPPED is terminal: an applyItem or returnItem call by any member
\* that finds the item SCRAPPED leaves it SCRAPPED.
C17_ScrappedTerminal ==
    \A p \in Sessions :
        (ByApplyOrReturn(p) /\ IsMember(p) /\ PreItem(p).useable = SCRAPPED)
        => item_info[loc[p].oid].useable = SCRAPPED

LifecycleEdges ==
    {<<AVAILABLE, LENT>>, <<AVAILABLE, APPLYING>>, <<AVAILABLE, REPAIRING>>,
     <<AVAILABLE, SCRAPPED>>, <<APPLYING, AVAILABLE>>, <<APPLYING, LENT>>,
     <<LENT, AVAILABLE>>, <<REPAIRING, AVAILABLE>>, <<REPAIRING, SCRAPPED>>}

\* C18: every status change made by applyItem or returnItem is an edge of the
\* lifecycle graph (so applyItem never moves a LENT or REPAIRING item to
\* APPLYING), and no item ever has the status UNKNOWN.
C18_LifecycleEdges ==
    /\ \A p \in Sessions :
          (ByApplyOrReturn(p) /\ StatusChange(p)[1] # StatusChange(p)[2])
          => StatusChange(p) \in LifecycleEdges
    /\ \A i \in DOMAIN item_info : item_info[i].useable # UNKNOWN

\* ---- the log
\* C19: the log is append-only: in every step every committed entry stays in
\* its place with its userId, operation, targetItemId and note unchanged, and
\* the number of entries never decreases.
C19_LogAppendOnly ==
    [][/\ Len(logs') >= Len(logs)
       /\ SubSeq(logs', 1, Len(logs)) = logs]_vars

\* A call has committed an entry behind the entries of two earlier calls.
C19_Witness ==
    /\ AllIdle
    /\ Len(logs) = 3
    /\ Len(pre[1].logs) = 2
    /\ SubSeq(logs, 1, 2) = pre[1].logs

StateChanging == {"add_category", "add_list", "add_item", "apply_item", "return_item"}

RowsChanged(p) ==
    \/ category # pre[p].category
    \/ item_list # pre[p].item_list
    \/ item_info # pre[p].item_info

\* C20: every state-changing operation appends at least one LogEntry: when an
\* addCategory, addList, addItems, applyItem or returnItem call has changed a
\* Category, List or Item row, the log is strictly longer than before the call.
C20_ChangeIsLogged ==
    \A p \in Sessions :
        (pc[p] = "idle" /\ loc[p].op \in StateChanging /\ RowsChanged(p))
        => Len(logs) > Len(pre[p].logs)

\* ---- commands
ByCommand(p) == pc[p] = "idle" /\ StartsWithSlash(loc[p].command)

\* C21: an /add or /del command issued through handle_command by a Member who
\* is no admin is answered with the permission error, no handler runs, and all
\* Category, List, Item and Log rows stay as they were.
C21_AdminCommandRefused ==
    \A p \in Sessions :
        (/\ ByCommand(p)
         /\ Tail(Split(loc[p].command)[1]) \in {<<"a", "d", "d">>, <<"d", "e", "l">>}
         /\ IsMember(p) /\ ~IsAdmin(p))
        => /\ ret[p] = Msg(ErrPermission)
           /\ loc[p].handler = None
           /\ Unchanged(p)

\* Bob's /del is refused on a ledger with a lent item and a log entry.
C21_Witness ==
    /\ ByCommand(1)
    /\ Split(loc[1].command)[1] = <<"/", "d", "e", "l">>
    /\ loc[1].user_id = "bob"
    /\ ret[1] = Msg(ErrPermission)
    /\ logs # <<>>

\* ---- apply_item
ApplyRow(p) == [userId |-> loc[p].user_id, operation |-> "APPLY",
                object |-> loc[p].oid, do |-> loc[p].do]

\* A status handed back to the caller.
StatusResult(st) == [msg |-> "status", id |-> st]

\* C22: applyItem on an existing Item that is not SCRAPPED sets the status to
\* APPLYING, leaves the holder as it was, appends exactly one log entry "APPLY"
\* for the item and returns the updated status; on an id that is no Item it
\* returns the NotFound failure.
C22_ApplyItem ==
    \A p \in Sessions :
        Completed(p, "apply_item") =>
            IF OnItem(p)
            THEN PreItem(p).useable # SCRAPPED =>
                    /\ item_info[loc[p].oid].useable = APPLYING
                    /\ item_info[loc[p].oid].wis = PreItem(p).wis
                    /\ logs = pre[p].logs \o <<ApplyRow(p)>>
                    /\ ret[p] = StatusResult(APPLYING)
            ELSE ret[p] = Msg(ErrItemNotFound)

\* C22, what the calls leave in the store: the status APPLYING, the holder as
\* it was and an "APPLY" entry for the item at the end of the log; a call on an
\* id that is no Item leaves the committed rows as they were.
C22_ApplyEffect ==
    \A p \in Sessions :
        Completed(p, "apply_item") =>
            IF OnItem(p)
            THEN /\ item_info[loc[p].oid].useable = APPLYING
                 /\ item_info[loc[p].oid].wis = PreItem(p).wis
                 /\ Last(logs) = ApplyRow(p)
            ELSE /\ item_info = pre[p].item_info
                 /\ logs = pre[p].logs

\* ---- set_item_state
\* The call of p has run set_item_state with the arguments in loc[p].
RanSetItemState(p) ==
    Completed(p, "set_item_state") \/ Completed(p, "apply_item")

Supplied(new, old) == IF new # None THEN new ELSE old

\* C23: setItemState on an existing Item applies the three fields: the status
\* becomes the new status, the holder the given holder when one is supplied,
\* the note of the Item the given note when one is supplied; on an id that is
\* no Item it changes no Item, List or Category row.
C23_SetItemState ==
    \A p \in Sessions :
        RanSetItemState(p) =>
            IF OnItem(p)
            THEN /\ item_info[loc[p].oid].useable = loc[p].useable
                 /\ item_info[loc[p].oid].wis = Supplied(loc[p].wis, PreItem(p).wis)
                 /\ item_info[loc[p].oid].do = Supplied(loc[p].do, PreItem(p).do)
            ELSE /\ item_info = pre[p].item_info
                 /\ item_list = pre[p].item_list
                 /\ category = pre[p].category

\* C23 without the note: status and holder are applied, and a call on an id
\* that is no Item changes no Item, List or Category row.
C23_StatusAndHolder ==
    \A p \in Sessions :
        RanSetItemState(p) =>
            IF OnItem(p)
            THEN /\ item_info[loc[p].oid].useable = loc[p].useable
                 /\ item_info[loc[p].oid].wis = Supplied(loc[p].wis, PreItem(p).wis)
                 /\ item_info[loc[p].oid].do = PreItem(p).do
            ELSE /\ item_info = pre[p].item_info
                 /\ item_list = pre[p].item_list
                 /\ category = pre[p].category

\* ---- sync_item_counts
\* In the store st the counts of List l are fresh and the total of its Category
\* is the sum of the stored totals of the Category's Lists.
SyncedIn(st, l) ==
    LET of == {i \in DOMAIN st.item_info : st.item_info[i].father = l}
        with(u) == {i \in of : st.item_info[i].useable = u}
        c == st.item_list[l].father
        lists == {x \in DOMAIN st.item_list : st.item_list[x].father = c}
    IN  /\ st.item_list[l].total = Cardinality(of)
        /\ st.item_list[l].free = Cardinality(with(AVAILABLE))
        /\ st.item_list[l].broken = Cardinality(with(SCRAPPED))
        /\ st.category[c].total =
              Sum([x \in DOMAIN st.item_list |-> st.item_list[x].total], lists)

\* C24: the synchronizer recomputes: whatever the stored counts of L and the
\* stored total of its Category were, after one run of sync_item_counts(L) the
\* three counts of L are fresh counts over its Items and the Category's total
\* is the sum of the stored totals of its Lists; a run that starts from such a
\* state (a second run) changes nothing.
C24_SyncRecomputes ==
    \A p \in Sessions :
        (Completed(p, "sync_item_counts") /\ loc[p].list_id \in DOMAIN item_list)
        => /\ SyncedIn(Store, loc[p].list_id)
           /\ SyncedIn(pre[p], loc[p].list_id) => Unchanged(p)

\* A run has put right a List whose three counts were all wrong, under a
\* Category whose other List still has a stale total.
C24_Witness ==
    /\ Completed(1, "sync_item_counts")
    /\ loc[1].list_id = 1001
    /\ pre[1].item_list[1001].total # 2
    /\ pre[1].item_list[1001].free # 1
    /\ pre[1].item_list[1001].broken # 1
    /\ item_list[1001] = [father |-> 1, name |-> "l1", total |-> 2, free |-> 1,
                          broken |-> 1]
    /\ item_list[1002].total = 2
    /\ category[1].total = 4

\* A second run in a row on the same List has changed nothing.
C24_SecondRun ==
    /\ Completed(1, "sync_item_counts")
    /\ loc[1].list_id = 1001
    /\ SyncedIn(pre[1], 1001)
    /\ Unchanged(1)
    /\ item_list[1002].total = 0

\* ---- the ceiling of the id scheme
\* 1000 * parent + 1 .. 1000 * parent + 999
InRange(id, parent) == id \in ((IdBase * parent) + 1) .. ((IdBase * parent) + IdBase - 1)

\* The ids the add_item call of p has computed.
ComputedItemId(p, i) == NewItemId(loc[p], i)

\* The i-th id of the batch is computed for a List of fewer than 999 Items and
\* is new and in the range of the List.
ItemIdsFineBelowCeiling(p) ==
    \A i \in 0 .. (loc[p].num - 1) :
        Cardinality(PreItemsOf(p)) + i < IdBase - 1
        => /\ ComputedItemId(p, i) \notin DOMAIN pre[p].item_info
           /\ InRange(ComputedItemId(p, i), loc[p].name_id)

\* The batch takes the List to 1000 Items or more and one of its ids is stored
\* already or out of the range of the List.
ItemIdsCollideAtCeiling(p) ==
    (loc[p].num > 0 /\ Cardinality(PreItemsOf(p)) + loc[p].num >= IdBase)
    => \E i \in 0 .. (loc[p].num - 1) :
          \/ ComputedItemId(p, i) \in DOMAIN pre[p].item_info
          \/ ~InRange(ComputedItemId(p, i), loc[p].name_id)

\* C25: the ceiling of the id scheme: while a parent has fewer than 999
\* children the id computed for a new child is neither stored already nor out
\* of the parent's range 1000 * parent + 1 .. 1000 * parent + 999, for Lists
\* under a Category and for Items under a List; a List that reaches 1000 Items
\* or more gets an id that is stored already or out of its range.
C25_IdCeiling ==
    \A p \in Sessions :
        /\ (AddedList(p) /\ Cardinality(PreSiblings(p)) < IdBase - 1)
           => /\ loc[p].new_id \notin DOMAIN pre[p].item_list
              /\ InRange(loc[p].new_id, loc[p].category_id)
        /\ AddedItems(p) => ItemIdsFineBelowCeiling(p) /\ ItemIdsCollideAtCeiling(p)

\* C25 for Items, where it holds: while no List has reached 1000 Items the ids
\* computed below the ceiling are new and in range, and a batch that takes a
\* List to 1000 Items or more computes an id that is stored or out of range.
C25_ItemIdCeiling ==
    \A p \in Sessions :
        AddedItems(p) =>
            /\ (\A l \in DOMAIN pre[p].item_list :
                   Cardinality({i \in DOMAIN pre[p].item_info :
                                   pre[p].item_info[i].father = l}) < IdBase)
               => ItemIdsFineBelowCeiling(p)
            /\ ItemIdsCollideAtCeiling(p)

\* ---- names of Lists
\* C26: List names are unique in every state, also after two add_list calls
\* with the same name have run at the same time, for the same Category or for
\* different ones: no two List rows have the same name.
C26_ListNamesUnique ==
    \A l, m \in DOMAIN item_list : l # m => item_list[l].name # item_list[m].name

\* C27: APPLYING is absorbing for apply and return: an applyItem or returnItem
\* call by any member, admin or not, that finds the item APPLYING leaves it
\* APPLYING (so APPLYING -> AVAILABLE and APPLYING -> LENT do not happen
\* through apply and return).
C27_ApplyingAbsorbing ==
    \A p \in Sessions :
        (ByApplyOrReturn(p) /\ PreItem(p).useable = APPLYING)
        => item_info[loc[p].oid].useable = APPLYING

\* The admin's return of an item that is being applied for was refused.
C27_Witness ==
    /\ Completed(1, "return_item")
    /\ OnItem(1)
    /\ IsAdmin(1)
    /\ PreItem(1).useable = APPLYING
    /\ ret[1] = Msg(ErrApplying)
    /\ item_info[loc[1].oid].useable = APPLYING

\* ---- the check and the write of return_item
\* The step is the write of the return_item call of p.
ReturnWrites(p) ==
    /\ loc[p].op = "return_item"
    /\ pc[p] = "ss_commit"
    /\ pc'[p] # "ss_commit"

\* C28: no concurrent change comes between the check and the write of
\* returnItem: whatever the interleaving with an applyItem or a scrapping of
\* the same item, returnItem never writes AVAILABLE over an item whose
\* committed status at the moment of the write is APPLYING or SCRAPPED.
C28_ReturnWriteNotStale ==
    [][\A p \in Sessions :
          (ReturnWrites(p) /\ item_info'[loc[p].oid].useable = AVAILABLE)
          => item_info[loc[p].oid].useable \notin {APPLYING, SCRAPPED}]_vars

\* ---- the targets of the log
\* C29: every committed log entry written through applyItem, returnItem or
\* setItemState targets an Item that exists: a call on an id that is no Item
\* never leads to a committed entry for that id, not even when a later call on
\* the same session commits.
C29_LogTargetsExist ==
    \A k \in 1 .. Len(logs) : logs[k].object \in DOMAIN item_info

====
